---------------------------- MODULE Spec2Model ----------------------------
(***************************************************************************)
(* Route acquisition and range feasibility of the EV trip dashboard.       *)
(*                                                                         *)
(*   estimateDistance, optimizeRoute   the routing service                 *)
(*   processRangeFeasibility           the charging-stop partitioner       *)
(*   fetchRoutes, handleRefreshLocation, handleDestinationSubmit,          *)
(*   setSelectedRouteId                the trip session held by App        *)
(*                                                                         *)
(* Units.  Texts are sequences of one-character strings.  Kilometres       *)
(* (distanceKm, kmAt) are held in tenths of a kilometre and battery        *)
(* percentages of a route (estimatedBatteryConsumption) in tenths of a     *)
(* percent, because the service rounds both with toFixed(1); Km(n) and     *)
(* Pct(n) convert whole kilometres and whole percents.                     *)
(***************************************************************************)
EXTENDS Integers, Sequences, FiniteSets

VARIABLES
    \* ---- trip session (React state of App)
    routes,              \* useState<EnhancedRouteOption[]>([])
    selectedRouteId,     \* useState<string>('')
    loading,             \* useState(true)
    isUpdating,          \* useState(false)
    isSimulated,         \* useState(false)
    destinationInput,    \* useState('VIT Chennai')
    activeDestination,   \* useState('VIT Chennai')
    userLoc,             \* useState<{latitude, longitude} | undefined>()
    \* ---- event loop
    mounted,             \* the mount effect has run
    geoRequests,         \* getCurrentPosition calls not yet answered
    inflight,            \* fetchRoutes calls suspended at await optimizeRoute
    \* ---- observation of the last operation
    rawRoutes,           \* the list last handed to processRangeFeasibility
    lastFetch,           \* the fetchRoutes call that last resumed
    acq                  \* the last direct call of optimizeRoute

vars == << routes, selectedRouteId, loading, isUpdating, isSimulated,
           destinationInput, activeDestination, userLoc,
           mounted, geoRequests, inflight, rawRoutes, lastFetch, acq >>

sessionVars == << routes, selectedRouteId, loading, isUpdating, isSimulated,
                  destinationInput, activeDestination, userLoc,
                  mounted, geoRequests, inflight, lastFetch >>

-----------------------------------------------------------------------------
(* Numbers *)

Km(n) == n * 10

Pct(n) == n * 10

Min(a, b) == IF a <= b THEN a ELSE b

\* Math.ceil in place of Math.floor
CeilDiv(a, b) == (a + b - 1) \div b

\* Math.floor(a / b) for b > 0 and a >= 0
FloorDiv(a, b) == a \div b

\* Math.round(n / d) for n >= 0, d > 0: halves go up
RoundDiv(n, d) == (2 * n + d) \div (2 * d)

\* Number(x.toFixed(1)) for x given in hundredths, result in tenths.  toFixed
\* rounds the magnitude to the nearest tenth and keeps the sign.
ToFixed1(hundredths) ==
    IF hundredths >= 0
      THEN (hundredths + 5) \div 10
      ELSE 0 - ((0 - hundredths + 5) \div 10)

-----------------------------------------------------------------------------
(* Texts *)

UpperCase == <<"A", "B", "C", "D", "E", "F", "G", "H", "I", "J", "K", "L", "M",
               "N", "O", "P", "Q", "R", "S", "T", "U", "V", "W", "X", "Y", "Z">>

LowerCase == <<"a", "b", "c", "d", "e", "f", "g", "h", "i", "j", "k", "l", "m",
               "n", "o", "p", "q", "r", "s", "t", "u", "v", "w", "x", "y", "z">>

toLowerChar(c) ==
    IF \E i \in DOMAIN UpperCase : UpperCase[i] = c
      THEN LowerCase[CHOOSE i \in DOMAIN UpperCase : UpperCase[i] = c]
      ELSE c

\* String.prototype.toLowerCase
toLowerCase(s) == [i \in DOMAIN s |-> toLowerChar(s[i])]

\* String.prototype.trim (the only white space of the alphabet is " ")
RECURSIVE trimStart(_)
trimStart(s) ==
    IF s # <<>> /\ Head(s) = " " THEN trimStart(Tail(s)) ELSE s

RECURSIVE trimEnd(_)
trimEnd(s) ==
    IF s # <<>> /\ s[Len(s)] = " " THEN trimEnd(SubSeq(s, 1, Len(s) - 1)) ELSE s

trim(s) == trimEnd(trimStart(s))

\* String.prototype.includes
includes(s, needle) ==
    \E i \in 0 .. (Len(s) - Len(needle)) :
        SubSeq(s, i + 1, i + Len(needle)) = needle

-----------------------------------------------------------------------------
(* Distance estimator *)

\* Object.entries order is the order the keys are written in.
LOCAL_DISTANCE_ESTIMATOR ==
    << << <<"c", "h", "e", "n", "n", "a", "i">>, 32 >>,
       << <<"m", "a", "r", "i", "n", "a">>, 35 >>,
       << <<"t", "a", "m", "b", "a", "r", "a", "m">>, 12 >>,
       << <<"g", "u", "i", "n", "d", "y">>, 24 >>,
       << <<"p", "o", "n", "d", "y">>, 120 >>,
       << <<"p", "o", "n", "d", "i", "c", "h", "e", "r", "r", "y">>, 120 >>,
       << <<"b", "a", "n", "g", "a", "l", "o", "r", "e">>, 330 >>,
       << <<"b", "e", "n", "g", "a", "l", "u", "r", "u">>, 330 >>,
       << <<"c", "o", "i", "m", "b", "a", "t", "o", "r", "e">>, 480 >>,
       << <<"m", "a", "d", "u", "r", "a", "i">>, 430 >>,
       << <<"v", "e", "l", "l", "o", "r", "e">>, 120 >>,
       << <<"v", "i", "t", " ", "v", "e", "l", "l", "o", "r", "e">>, 125 >>,
       << <<"a", "i", "r", "p", "o", "r", "t">>, 18 >>,
       << <<"c", "h", "e", "n", "n", "a", "i", " ", "a", "i", "r", "p", "o", "r", "t">>, 18 >>,
       << <<"t", "h", "i", "r", "u", "v", "a", "n", "m", "i", "y", "u", "r">>, 28 >>,
       << <<"a", "d", "y", "a", "r">>, 30 >> >>

\* The table never consulted
noEntries(destination) == {}

\* The entries whose key the normalized text contains, in table order.
matchingEntries(destination) ==
    LET normalized == trim(toLowerCase(destination))
    IN  { i \in DOMAIN LOCAL_DISTANCE_ESTIMATOR :
            includes(normalized, LOCAL_DISTANCE_ESTIMATOR[i][1]) }

\* The entry at which the scan returns: the first in table order whose key the
\* normalized text contains, 0 when the scan ends without one
matchedEntry(destination) ==
    LET hits == matchingEntries(destination)
    IN  IF hits # {}
          THEN CHOOSE i \in hits : \A j \in hits : i <= j
          ELSE 0

\* Math.floor(Math.random() * 10)
Jitters == 0 .. 9

\* estimateDistance draws a jitter only when no key matches.
jitterDraws(destination) ==
    IF matchingEntries(destination) # {} THEN {0} ELSE Jitters

\* The estimate computed from the length of the normalized text
estimateDistanceNormalized(destination, jitter) ==
    LET hits == matchingEntries(destination)
    IN  IF hits # {}
          THEN LOCAL_DISTANCE_ESTIMATOR[
                   CHOOSE i \in hits : \A j \in hits : i <= j][2]
          ELSE 15 + (Len(trim(toLowerCase(destination))) * 2) + jitter

\* Whole kilometres.  jitter is the value Math.random gives this call.
estimateDistance(destination, jitter) ==
    LET hits == matchingEntries(destination)
    IN  IF hits # {}
          THEN LOCAL_DISTANCE_ESTIMATOR[
                   CHOOSE i \in hits : \A j \in hits : i <= j][2]
          ELSE 15 + (Len(destination) * 2) + jitter

-----------------------------------------------------------------------------
(* Fallback route set: the catch block of optimizeRoute *)

\* `https://www.google.com/maps/search/${encodeURIComponent(destination)}`
searchLink(destination) == [kind |-> "search", query |-> destination]

\* The whole-kilometre distances d below 700 for which the double d * 1.05 lies
\* just under the decimal tie d * 1.05 = x.x5, so that toFixed(1) rounds down
\* (19 * 1.05 is 19.95 in decimals and 19.949999999999999 as a double).
Float105Low ==
    { 19, 33, 43, 61, 71, 81, 91, 127, 137, 147, 157, 167, 177, 187, 249, 259,
      269, 279, 289, 299, 309, 319, 329, 339, 349, 359, 369, 379, 493, 503,
      513, 523, 533, 543, 553, 563, 573, 583, 593, 603, 613, 623, 633, 643,
      653, 663, 673, 683, 693 }

\* Number((estimatedDist * 1.05).toFixed(1)), in tenths of a kilometre
balancedDistance(estimatedDist) ==
    IF estimatedDist \in Float105Low
      THEN (estimatedDist * 105) \div 10
      ELSE ToFixed1(estimatedDist * 105)

\* Math.min(currentBattery - 5, (estimatedDist / 100) * 20), in hundredths of
\* a percent
baseConsumption(currentBattery, estimatedDist) ==
    Min((currentBattery - 5) * 100, estimatedDist * 20)

\* Number((baseConsumption * 0.9).toFixed(1)), in tenths of a percent
ecoConsumption(base) == ToFixed1((base * 9) \div 10)

\* Number((baseConsumption * 1.3).toFixed(1))
fastConsumption(base) == ToFixed1((base * 13) \div 10)

\* Number(baseConsumption.toFixed(1))
balancedConsumption(base) == ToFixed1(base)

fallbackRoutes(destination, currentBattery, jitter) ==
    LET estimatedDist == estimateDistance(destination, jitter)
        estimatedTime == RoundDiv(estimatedDist * 18, 10)
        base          == baseConsumption(currentBattery, estimatedDist)
    IN  << [ id |-> "1",
             name |-> "Improvised Eco-Optimal",
             distanceKm |-> Km(estimatedDist),
             durationMin |-> estimatedTime,
             elevationGainM |-> 20,
             elevationLossM |-> 10,
             trafficLevel |-> "Low",
             estimatedBatteryConsumption |-> ecoConsumption(base),
             isOptimal |-> TRUE,
             isSimulated |-> TRUE,
             mapUri |-> searchLink(destination) ],
           [ id |-> "2",
             name |-> "Improvised Fast-Path",
             distanceKm |-> estimatedDist * 11,
             durationMin |-> RoundDiv(estimatedTime * 8, 10),
             elevationGainM |-> 40,
             elevationLossM |-> 30,
             trafficLevel |-> "Moderate",
             estimatedBatteryConsumption |-> fastConsumption(base),
             isOptimal |-> FALSE,
             isSimulated |-> TRUE,
             mapUri |-> searchLink(destination) ],
           [ id |-> "3",
             name |-> "Improvised Balanced",
             distanceKm |-> balancedDistance(estimatedDist),
             durationMin |-> RoundDiv(estimatedTime * 95, 100),
             elevationGainM |-> 30,
             elevationLossM |-> 20,
             trafficLevel |-> "Moderate",
             estimatedBatteryConsumption |-> balancedConsumption(base),
             isOptimal |-> FALSE,
             isSimulated |-> TRUE,
             mapUri |-> searchLink(destination) ] >>

-----------------------------------------------------------------------------
(* The provider call and its response *)

\* What ai.models.generateContent does: it throws an Error with a message, or
\* it returns a response.  The text of a response is a lead (commentary before
\* the payload) followed by a body; groundingChunks is undefined or a list.
\*   body "none"    nothing follows the lead
\*   body "broken"  a truncated payload: no [{ ... }] region, not JSON
\*   body "number"  a JSON number        body "object"  one JSON object
\*   body "array"   a JSON array of the route objects in items
isQuotaError(message) ==
    includes(message, <<"q", "u", "o", "t", "a">>)
        \/ includes(message, <<"4", "2", "9">>)

\* response.candidates[0].content.parts joined and trimmed is empty
textIsEmpty(response) ==
    trim(response.lead) = <<>> /\ response.body.json = "none"

\* The refusal test without toLowerCase
isRefusalCaseSensitive(response) ==
    includes(response.lead, <<"i", " ", "a", "m", " ", "s", "o", "r", "r", "y">>)
      \/ includes(response.lead, <<"c", "a", "n", "n", "o", "t", " ",
                                   "f", "u", "l", "f", "i", "l", "l">>)

\* text.toLowerCase().includes("i am sorry") || ...includes("cannot fulfill")
isRefusal(response) ==
    LET lower == toLowerCase(response.lead)
    IN  includes(lower, <<"i", " ", "a", "m", " ", "s", "o", "r", "r", "y">>)
          \/ includes(lower, <<"c", "a", "n", "n", "o", "t", " ",
                               "f", "u", "l", "f", "i", "l", "l">>)

\* text.match(/\[\s*\{[\s\S]*\}\s*\]/): an array that holds objects
hasJsonMatch(response) ==
    response.body.json = "array" /\ response.body.items # <<>>

\* JSON.parse(jsonString) throws a SyntaxError
parseThrows(response) ==
    IF hasJsonMatch(response)
      THEN FALSE
      ELSE \/ response.body.json \in {"none", "broken"}
           \/ trim(response.lead) # <<>>

\* JSON.parse(jsonString), for a response on which it does not throw
parsed(response) ==
    IF response.body.json = "array"
      THEN [tag |-> "array", items |-> response.body.items]
      ELSE [tag |-> response.body.json]

\* groundingChunks.find(chunk => chunk.maps?.uri)
hasMapsChunk(chunks) == \E i \in DOMAIN chunks : chunks[i].kind = "maps"

firstMapsUri(chunks) ==
    chunks[CHOOSE i \in DOMAIN chunks :
               /\ chunks[i].kind = "maps"
               /\ \A j \in DOMAIN chunks : chunks[j].kind = "maps" => i <= j].uri

\* route.mapUri = ...; route.isSimulated = false
stamp(route, chunks, destination) ==
    [ f \in DOMAIN route \cup {"mapUri", "isSimulated"} |->
        IF f = "mapUri"
          THEN IF hasMapsChunk(chunks)
                 THEN [kind |-> "provider", uri |-> firstMapsUri(chunks)]
                 ELSE searchLink(destination)
          ELSE IF f = "isSimulated" THEN FALSE ELSE route[f] ]

\* if (groundingChunks && Array.isArray(routes)) routes.forEach(...)
enrich(value, grounding, destination) ==
    IF grounding.defined /\ value.tag = "array"
      THEN [ tag |-> "array",
             items |-> [ i \in DOMAIN value.items |->
                           stamp(value.items[i], grounding.chunks, destination) ] ]
      ELSE value

\* The try block reaches the catch block
degraded(outcome) ==
    \/ outcome.kind = "throw"
    \/ /\ outcome.kind = "response"
       /\ \/ textIsEmpty(outcome)
          \/ isRefusal(outcome)
          \/ parseThrows(outcome)

\* The value the promise of optimizeRoute resolves to.  userLocation takes no
\* part: the request is sent from the fixed origin.
optimizeRoute(destination, currentBattery, userLocation, outcome, jitter) ==
    IF degraded(outcome)
      THEN [ tag |-> "array",
             items |-> fallbackRoutes(destination, currentBattery, jitter) ]
      ELSE enrich(parsed(outcome), outcome.grounding, destination)

-----------------------------------------------------------------------------
(* Range feasibility *)

MAX_VEHICLE_RANGE == 100

\* The stop placed one interval early (a loop counted from 0 in kmAt)
chargingStopFromZero(i) ==
    [ id    |-> <<"stop-", i>>,
      kmAt  |-> Km((i - 1) * MAX_VEHICLE_RANGE),
      label |-> <<"Charging Stop ", i, " (", (i - 1) * MAX_VEHICLE_RANGE, "km)">> ]

chargingStop(i) ==
    [ id    |-> <<"stop-", i>>,
      kmAt  |-> Km(i * MAX_VEHICLE_RANGE),
      label |-> <<"Charging Stop ", i, " (", i * MAX_VEHICLE_RANGE, "km)">> ]

\* The stops with the range test written >= instead of >
stopsForInclusive(route) ==
    IF route.distanceKm >= Km(MAX_VEHICLE_RANGE)
      THEN LET numStops == FloorDiv(route.distanceKm, Km(MAX_VEHICLE_RANGE))
           IN  [ i \in 1 .. numStops |-> chargingStop(i) ]
      ELSE << >>

\* One stop at the range and none after it
stopsForFirstOnly(route) ==
    IF route.distanceKm > Km(MAX_VEHICLE_RANGE)
      THEN << chargingStop(1) >>
      ELSE << >>

\* The stops pushed for one route
stopsFor(route) ==
    IF route.distanceKm > Km(MAX_VEHICLE_RANGE)
      THEN LET numStops == FloorDiv(route.distanceKm, Km(MAX_VEHICLE_RANGE))
           IN  [ i \in 1 .. numStops |-> chargingStop(i) ]
      ELSE << >>

\* A new object that keeps only the id and the distance of the route
withStopsOnly(route) ==
    [ id |-> route.id, distanceKm |-> route.distanceKm,
      chargingStops |-> stopsFor(route) ]

\* { ...route, chargingStops: stops }
withStops(route) ==
    [ f \in DOMAIN route \cup {"chargingStops"} |->
        IF f = "chargingStops" THEN stopsFor(route) ELSE route[f] ]

processRangeFeasibility(list) == [ i \in DOMAIN list |-> withStops(list[i]) ]

-----------------------------------------------------------------------------
(* Inputs of the model *)

\* The most fetchRoutes calls suspended at once, the most geolocation requests
\* unanswered at once, and the longest route (whole kilometres) handed to the
\* partitioner on its own.
MaxInflight == 2

MaxGeo == 1

MaxFeasKm == 320

VIT_CHENNAI == <<"V", "I", "T", " ", "C", "h", "e", "n", "n", "a", "i">>

PONDY == <<"P", "o", "n", "d", "y">>

PONDY_PADDED == <<" ", "P", "o", "n", "d", "y", " ">>

GOA_PADDED == <<" ", "G", "o", "a", " ">>

BLANK == <<" ">>

BANGALORE == <<"b", "a", "n", "g", "a", "l", "o", "r", "e">>

COIMBATORE_STAND ==
    <<"C", "o", "i", "m", "b", "a", "t", "o", "r", "e", " ",
      "B", "u", "s", " ", "S", "t", "a", "n", "d">>

VIT_VELLORE == <<"v", "i", "t", " ", "v", "e", "l", "l", "o", "r", "e">>

OOTY == <<"O", "o", "t", "y">>

SHORE_TEMPLE ==
    <<"M", "a", "h", "a", "b", "a", "l", "i", "p", "u", "r", "a", "m", " ",
      "S", "h", "o", "r", "e", " ", "T", "e", "m", "p", "l", "e", " ",
      "a", "n", "d", " ", "B", "e", "a", "c", "h", " ",
      "R", "e", "s", "o", "r", "t">>

\* What the user types into the destination field
TypedTexts == { PONDY_PADDED, BLANK }

\* Destination texts optimizeRoute is called with directly
AcqDestinations ==
    { << >>, VIT_CHENNAI, PONDY, GOA_PADDED, BANGALORE, COIMBATORE_STAND,
      VIT_VELLORE, OOTY, SHORE_TEMPLE }

\* Battery percentages optimizeRoute is called with directly
Batteries == (0 .. 6) \cup { 10, 50, 80, 100 }

NoLocation == [defined |-> FALSE]

HERE == [defined |-> TRUE, latitude |-> 13, longitude |-> 80]

Locations == { NoLocation, HERE }

\* A route object of the provider's JSON, distance in tenths of a kilometre
providerRoute(id, tenths, optimal) ==
    [ id |-> id,
      name |-> "Route",
      distanceKm |-> tenths,
      durationMin |-> RoundDiv(tenths * 18, 100),
      elevationGainM |-> 25,
      elevationLossM |-> 15,
      trafficLevel |-> "Moderate",
      estimatedBatteryConsumption |-> Pct(20),
      isOptimal |-> optimal,
      reasoning |-> "provider" ]

LIST_NEAR ==
    << providerRoute("1", 400, TRUE), providerRoute("2", 455, FALSE),
       providerRoute("3", 1000, FALSE) >>

LIST_FAR ==
    << providerRoute("1", 2500, FALSE), providerRoute("2", 1001, TRUE),
       providerRoute("3", 999, FALSE) >>

LIST_PLAIN ==
    << providerRoute("1", 1000, FALSE), providerRoute("2", 3300, FALSE) >>

ProviderLists == { LIST_NEAR, LIST_FAR, LIST_PLAIN }

NoGrounding == [defined |-> FALSE]

Groundings ==
    { NoGrounding,
      [defined |-> TRUE, chunks |-> << >>],
      [defined |-> TRUE, chunks |-> << [kind |-> "web"] >>],
      [defined |-> TRUE,
       chunks |-> << [kind |-> "web"], [kind |-> "maps", uri |-> "maps/place"] >>] }

Leads ==
    { << >>,
      <<"H", "e", "r", "e", ":", " ">>,
      <<"I", " ", "A", "m", " ", "S", "o", "r", "r", "y", ",", " ", "n", "o">>,
      <<"c", "a", "n", "n", "o", "t", " ", "f", "u", "l", "f", "i", "l", "l">> }

Bodies ==
    { [json |-> k] : k \in {"none", "broken", "number", "object"} }
      \cup { [json |-> "array", items |-> l] : l \in ProviderLists \cup { << >> } }

ErrorMessages ==
    { <<"q", "u", "o", "t", "a", " ", "e", "x", "c", "e", "e", "d", "e", "d">>,
      <<"H", "T", "T", "P", " ", "4", "2", "9">>,
      <<"f", "e", "t", "c", "h", " ", "f", "a", "i", "l", "e", "d">> }

Throws == { [kind |-> "throw", message |-> m] : m \in ErrorMessages }

Responses ==
    { [kind |-> "response", lead |-> l, body |-> b, grounding |-> g] :
        l \in Leads, b \in Bodies, g \in Groundings }

ProviderOutcomes == Throws \cup Responses

\* The outcomes the session is run against: one of each class
plainResponse(lead, body) ==
    [kind |-> "response", lead |-> lead, body |-> body, grounding |-> NoGrounding]

SessionOutcomes ==
    { [kind |-> "throw", message |-> <<"H", "T", "T", "P", " ", "4", "2", "9">>],
      plainResponse(<< >>, [json |-> "none"]),
      plainResponse(<< >>, [json |-> "object"]),
      plainResponse(<< >>, [json |-> "array", items |-> << >>]),
      plainResponse(<< >>, [json |-> "array", items |-> LIST_PLAIN]),
      plainResponse(<<"H", "e", "r", "e", ":", " ">>,
                    [json |-> "array", items |-> LIST_NEAR]),
      [kind |-> "response", lead |-> << >>,
       body |-> [json |-> "array", items |-> LIST_FAR],
       grounding |-> [defined |-> TRUE, chunks |-> << >>]] }

\* The jitters estimateDistance can draw in a call of optimizeRoute
draws(destination, outcome) ==
    IF degraded(outcome) THEN jitterDraws(destination) ELSE {0}

-----------------------------------------------------------------------------
(* Trip session: App *)

\* evState.batteryPercent: set once, never written afterwards
batteryPercent == 100

\* The flag computed from the routes state of the render that started the
\* call, not from the new list
someSimulatedStale(list) ==
    \E i \in DOMAIN routes :
        "isSimulated" \in DOMAIN routes[i] /\ routes[i].isSimulated

\* routesWithStops.some(r => r.isSimulated)
someSimulated(list) ==
    \E i \in DOMAIN list :
        "isSimulated" \in DOMAIN list[i] /\ list[i].isSimulated

\* routesWithStops.find(r => r.isOptimal) || routesWithStops[0]
hasOptimal(list) == \E i \in DOMAIN list : list[i].isOptimal

\* The selection cleared on every load instead of defaulted
unselected(list) == [id |-> ""]

\* The default without the search for isOptimal
firstRoute(list) == list[1]

optimalOrFirst(list) ==
    IF hasOptimal(list)
      THEN list[CHOOSE i \in DOMAIN list :
                    /\ list[i].isOptimal
                    /\ \A j \in DOMAIN list : list[j].isOptimal => i <= j]
      ELSE list[1]

\* rawRoutes.map is not a function, or optimal is undefined when optimal.id is
\* read
fetchThrows(value) == value.tag # "array" \/ value.items = << >>

removeAt(s, i) == SubSeq(s, 1, i - 1) \o SubSeq(s, i + 1, Len(s))

ids(list) == { list[i].id : i \in DOMAIN list }

InitSession ==
    /\ routes = << >>
    /\ selectedRouteId = ""
    /\ loading = TRUE
    /\ isUpdating = FALSE
    /\ isSimulated = FALSE
    /\ destinationInput = VIT_CHENNAI
    /\ activeDestination = VIT_CHENNAI
    /\ userLoc = NoLocation
    /\ mounted = FALSE
    /\ geoRequests = << >>
    /\ inflight = << >>
    /\ lastFetch = [target |-> << >>, threw |-> FALSE, value |-> [tag |-> "none"]]

Init ==
    /\ InitSession
    /\ rawRoutes = << >>
    /\ acq = [phase |-> "idle"]

\* fetchRoutes up to its await: setIsUpdating(true) and the provider call
fetchRoutes(target, location) ==
    /\ Len(inflight) < MaxInflight
    /\ isUpdating' = TRUE
    /\ inflight' = Append(inflight, [target |-> target, location |-> location])

\* handleRefreshLocation where navigator.geolocation exists
refreshWithGeolocation ==
    /\ Len(geoRequests) < MaxGeo
    /\ isUpdating' = TRUE
    /\ geoRequests' = Append(geoRequests,
                             [destination |-> activeDestination, userLoc |-> userLoc])
    /\ UNCHANGED << routes, selectedRouteId, loading, isSimulated,
                    destinationInput, activeDestination, userLoc, inflight,
                    rawRoutes, lastFetch, acq >>

\* handleRefreshLocation where it does not
refreshWithoutGeolocation ==
    /\ fetchRoutes(activeDestination, userLoc)
    /\ UNCHANGED << routes, selectedRouteId, loading, isSimulated,
                    destinationInput, activeDestination, userLoc, geoRequests,
                    rawRoutes, lastFetch, acq >>

\* useEffect(() => { handleRefreshLocation(); }, [])
Mount ==
    /\ ~mounted
    /\ mounted' = TRUE
    /\ refreshWithGeolocation \/ refreshWithoutGeolocation

\* The refresh button; nothing but the spinner is rendered while loading
RefreshClick ==
    /\ mounted /\ ~loading
    /\ UNCHANGED mounted
    /\ refreshWithGeolocation \/ refreshWithoutGeolocation

\* The success callback of getCurrentPosition
GeoSuccess ==
    \E i \in DOMAIN geoRequests :
        /\ userLoc' = HERE
        /\ fetchRoutes(geoRequests[i].destination, HERE)
        /\ geoRequests' = removeAt(geoRequests, i)
        /\ UNCHANGED << routes, selectedRouteId, loading, isSimulated,
                        destinationInput, activeDestination, mounted,
                        rawRoutes, lastFetch, acq >>

\* The error callback of getCurrentPosition
GeoError ==
    \E i \in DOMAIN geoRequests :
        /\ fetchRoutes(geoRequests[i].destination, geoRequests[i].userLoc)
        /\ geoRequests' = removeAt(geoRequests, i)
        /\ UNCHANGED << routes, selectedRouteId, loading, isSimulated,
                        destinationInput, activeDestination, userLoc, mounted,
                        rawRoutes, lastFetch, acq >>

\* onChange of the destination field
TypeDestination ==
    \E text \in TypedTexts \cup { VIT_CHENNAI } :
        /\ mounted /\ ~loading
        /\ destinationInput' = text
        /\ UNCHANGED << routes, selectedRouteId, loading, isUpdating, isSimulated,
                        activeDestination, userLoc, mounted, geoRequests,
                        inflight, rawRoutes, lastFetch, acq >>

\* handleDestinationSubmit; the submit button is disabled while isUpdating
SubmitDestination ==
    /\ mounted /\ ~loading /\ ~isUpdating
    /\ trim(destinationInput) # << >>
    /\ fetchRoutes(trim(destinationInput), userLoc)
    /\ UNCHANGED << routes, selectedRouteId, loading, isSimulated,
                    destinationInput, activeDestination, userLoc, mounted,
                    geoRequests, rawRoutes, lastFetch, acq >>

\* handleDestinationSubmit on a blank field: nothing happens
SubmitBlank ==
    /\ mounted /\ ~loading /\ ~isUpdating
    /\ trim(destinationInput) = << >>
    /\ UNCHANGED vars

\* The status with the two setters at the end of the try block instead of in
\* a finally block
statusWithoutFinally(value, before) ==
    IF fetchThrows(value) THEN before ELSE FALSE

\* finally { setIsUpdating(false); setLoading(false); }: what either status is
\* after the call, whatever the try block did and whatever it was before
finallyStatus(value, before) == FALSE

\* fetchRoutes from its await to its end, for the value optimizeRoute
\* resolved to
resumeFetch(call, value) ==
    /\ IF value.tag = "array"
         THEN LET routesWithStops == processRangeFeasibility(value.items)
              IN  /\ rawRoutes' = value.items
                  /\ routes' = routesWithStops
                  /\ isSimulated' = someSimulated(routesWithStops)
                  /\ IF routesWithStops # << >>
                       THEN /\ selectedRouteId' = optimalOrFirst(routesWithStops).id
                            /\ activeDestination' = call.target
                       ELSE UNCHANGED << selectedRouteId, activeDestination >>
         ELSE UNCHANGED << rawRoutes, routes, isSimulated, selectedRouteId,
                           activeDestination >>
    /\ isUpdating' = finallyStatus(value, isUpdating)
    /\ loading' = finallyStatus(value, loading)
    /\ lastFetch' = [target |-> call.target, threw |-> fetchThrows(value),
                     value |-> value]

\* The provider settles the call of one suspended fetchRoutes
FetchResume ==
    \E i \in DOMAIN inflight, outcome \in SessionOutcomes :
        \E jitter \in draws(inflight[i].target, outcome) :
            /\ resumeFetch(inflight[i],
                           optimizeRoute(inflight[i].target, batteryPercent,
                                         inflight[i].location, outcome, jitter))
            /\ inflight' = removeAt(inflight, i)
            /\ UNCHANGED << destinationInput, userLoc, mounted, geoRequests, acq >>

\* onSelect={setSelectedRouteId}: the setter takes whatever id it is given
onSelect(id) ==
    /\ selectedRouteId' = id
    /\ UNCHANGED << routes, loading, isUpdating, isSimulated,
                    destinationInput, activeDestination, userLoc, mounted,
                    geoRequests, inflight, rawRoutes, lastFetch, acq >>

\* A route button of MapOverlay is clicked: onSelect(route.id)
SelectRoute ==
    \E i \in DOMAIN routes :
        /\ mounted /\ ~loading
        /\ onSelect(routes[i].id)

Next ==
    \/ Mount
    \/ RefreshClick
    \/ GeoSuccess
    \/ GeoError
    \/ TypeDestination
    \/ SubmitDestination
    \/ SubmitBlank
    \/ FetchResume
    \/ SelectRoute

Spec == Init /\ [][Next]_vars

\* A suspended fetchRoutes leaves the pending set.  Under Next these are the
\* steps of FetchResume and no others, and one is possible exactly when
\* FetchResume is: when inflight is not empty.
settles == \E i \in DOMAIN inflight : inflight' = removeAt(inflight, i)

\* The mount effect runs, getCurrentPosition answers (it is given a timeout of
\* 5000 ms, after which the error callback is called) and the provider call
\* of every suspended fetchRoutes settles.
LiveSpec ==
    /\ Init
    /\ [][Next]_vars
    /\ WF_vars(Mount)
    /\ WF_vars(GeoSuccess \/ GeoError)
    /\ WF_inflight(settles)

-----------------------------------------------------------------------------
(* The service of src/services/geminiService.ts: the same try block without   *)
(* the isSimulated stamp, and a fallback set of fixed distances               *)

\* Math.min(currentBattery - 5, 12), in hundredths of a percent
svcBaseConsumption(currentBattery) == Min((currentBattery - 5) * 100, 1200)

svcFallbackRoutes(destination, currentBattery) ==
    LET base == svcBaseConsumption(currentBattery)
    IN  << [ id |-> "1",
             name |-> "Eco-Regen Priority",
             distanceKm |-> 185,
             durationMin |-> 24,
             elevationGainM |-> 30,
             elevationLossM |-> 140,
             trafficLevel |-> "Low",
             estimatedBatteryConsumption |-> ToFixed1((base * 8) \div 10),
             isOptimal |-> TRUE,
             mapUri |-> searchLink(destination) ],
           [ id |-> "2",
             name |-> "Expressway Path",
             distanceKm |-> 212,
             durationMin |-> 18,
             elevationGainM |-> 55,
             elevationLossM |-> 55,
             trafficLevel |-> "Moderate",
             estimatedBatteryConsumption |-> ToFixed1((base * 12) \div 10),
             isOptimal |-> FALSE,
             mapUri |-> searchLink(destination) ],
           [ id |-> "3",
             name |-> "City Balanced",
             distanceKm |-> 178,
             durationMin |-> 32,
             elevationGainM |-> 40,
             elevationLossM |-> 40,
             trafficLevel |-> "High",
             estimatedBatteryConsumption |-> ToFixed1((base * 15) \div 10),
             isOptimal |-> FALSE,
             mapUri |-> searchLink(destination) ] >>

\* route.mapUri = mapsChunk?.maps?.uri || search link
svcStamp(route, chunks, destination) ==
    [ f \in DOMAIN route \cup {"mapUri"} |->
        IF f = "mapUri"
          THEN IF hasMapsChunk(chunks)
                 THEN [kind |-> "provider", uri |-> firstMapsUri(chunks)]
                 ELSE searchLink(destination)
          ELSE route[f] ]

svcEnrich(value, grounding, destination) ==
    IF grounding.defined /\ value.tag = "array"
      THEN [ tag |-> "array",
             items |-> [ i \in DOMAIN value.items |->
                           svcStamp(value.items[i], grounding.chunks, destination) ] ]
      ELSE value

svcOptimizeRoute(destination, currentBattery, userLocation, outcome) ==
    IF degraded(outcome)
      THEN [ tag |-> "array",
             items |-> svcFallbackRoutes(destination, currentBattery) ]
      ELSE svcEnrich(parsed(outcome), outcome.grounding, destination)

-----------------------------------------------------------------------------
(* optimizeRoute called on its own *)

\* The calls: optimizeRoute(destination, currentBattery, userLocation)
AcqCalls ==
    { [ phase |-> "called", destination |-> d, currentBattery |-> b,
        userLocation |-> l ] :
        d \in AcqDestinations, b \in Batteries, l \in Locations }

AcqInit ==
    /\ InitSession
    /\ rawRoutes = << >>
    /\ acq \in AcqCalls

\* The provider settles and the promise of optimizeRoute resolves; svcValue is
\* what the service of geminiService.ts resolves to on the same arguments and
\* the same provider outcome.
Acquire ==
    /\ acq.phase = "called"
    /\ \E outcome \in ProviderOutcomes :
        \E jitter \in draws(acq.destination, outcome) :
            /\ acq' = [ phase |-> "settled",
                        destination |-> acq.destination,
                        currentBattery |-> acq.currentBattery,
                        userLocation |-> acq.userLocation,
                        outcome |-> outcome,
                        jitter |-> jitter,
                        value |-> optimizeRoute(acq.destination,
                                     acq.currentBattery, acq.userLocation,
                                     outcome, jitter),
                        svcValue |-> svcOptimizeRoute(acq.destination,
                                        acq.currentBattery, acq.userLocation,
                                        outcome) ]
            /\ UNCHANGED << sessionVars, rawRoutes >>

AcqNext == Acquire

AcqSpec == AcqInit /\ [][AcqNext]_vars

-----------------------------------------------------------------------------
(* processRangeFeasibility called on its own *)

FeasInputs ==
    { << providerRoute("1", tenths, TRUE) >> : tenths \in 1 .. Km(MaxFeasKm) }
      \cup ProviderLists \cup { << >> }

FeasInit ==
    /\ InitSession
    /\ rawRoutes \in FeasInputs
    /\ acq = [phase |-> "idle"]

ApplyFeasibility ==
    /\ routes' = processRangeFeasibility(rawRoutes)
    /\ UNCHANGED << selectedRouteId, loading, isUpdating, isSimulated,
                    destinationInput, activeDestination, userLoc, mounted,
                    geoRequests, inflight, lastFetch, rawRoutes, acq >>

FeasNext == ApplyFeasibility

FeasSpec == FeasInit /\ [][FeasNext]_vars

-----------------------------------------------------------------------------
(* The fallback set synthesized twice for the same destination and battery *)

CHENNAI_TO_BANGALORE ==
    <<"C", "h", "e", "n", "n", "a", "i", " ", "t", "o", " ",
      "B", "a", "n", "g", "a", "l", "o", "r", "e">>

BANGALORE_PALACE ==
    <<" ", "B", "A", "N", "G", "A", "L", "O", "R", "E", " ",
      "P", "a", "l", "a", "c", "e", " ">>

SynthDestinations ==
    AcqDestinations \cup { CHENNAI_TO_BANGALORE, BANGALORE_PALACE }

SynthCalls ==
    { [ phase |-> "called", destination |-> d, currentBattery |-> b ] :
        d \in SynthDestinations, b \in Batteries }

SynthInit ==
    /\ InitSession
    /\ rawRoutes = << >>
    /\ acq \in SynthCalls

\* The catch block runs for two calls with the same arguments; each call of
\* estimateDistance makes its own draw of Math.random.
Synthesize ==
    /\ acq.phase = "called"
    /\ \E jitter \in jitterDraws(acq.destination),
          jitterAgain \in jitterDraws(acq.destination) :
            /\ acq' = [ phase |-> "synthesized",
                        destination |-> acq.destination,
                        currentBattery |-> acq.currentBattery,
                        estimate |-> estimateDistance(acq.destination, jitter),
                        matched |-> matchedEntry(acq.destination),
                        value |-> fallbackRoutes(acq.destination,
                                     acq.currentBattery, jitter),
                        again |-> fallbackRoutes(acq.destination,
                                     acq.currentBattery, jitterAgain) ]
            /\ UNCHANGED << sessionVars, rawRoutes >>

SynthNext == Synthesize

SynthSpec == SynthInit /\ [][SynthNext]_vars

-----------------------------------------------------------------------------
(* onSelect called on its own, on a session that holds a candidate list *)

\* The candidate lists: the provider's, and the fallback sets
SelectLists ==
    ProviderLists
      \cup { fallbackRoutes(d, b, 0) : d \in AcqDestinations, b \in Batteries }

\* The ids onSelect is called with: those of the candidates and one more
SelectIds == { "1", "2", "3", "9" }

\* The session as a fetchRoutes that did not throw leaves it
SelectInit ==
    /\ rawRoutes \in SelectLists
    /\ routes = processRangeFeasibility(rawRoutes)
    /\ selectedRouteId = optimalOrFirst(routes).id
    /\ isSimulated = someSimulated(routes)
    /\ loading = FALSE
    /\ isUpdating = FALSE
    /\ destinationInput = VIT_CHENNAI
    /\ activeDestination = VIT_CHENNAI
    /\ userLoc = NoLocation
    /\ mounted = TRUE
    /\ geoRequests = << >>
    /\ inflight = << >>
    /\ lastFetch = [ target |-> VIT_CHENNAI, threw |-> FALSE,
                     value |-> [tag |-> "array", items |-> rawRoutes] ]
    /\ acq = [phase |-> "idle"]

SelectAny == \E id \in SelectIds : onSelect(id)

SelectNext == SelectAny

SelectSpec == SelectInit /\ [][SelectNext]_vars

-----------------------------------------------------------------------------
(* Properties of optimizeRoute (AcqSpec) *)

settled == acq.phase = "settled"

\* C1: optimizeRoute always resolves, and the value it resolves to is a
\* non-empty list of routes, whatever the provider does.
C1_ResolvesNonEmptyList ==
    settled => (acq.value.tag = "array" /\ acq.value.items # << >>)

\* The provider's text carries the refusal phrasing, in any letter case
refusalPhrased(lead) ==
    \E phrase \in { <<"i", " ", "a", "m", " ", "s", "o", "r", "r", "y">>,
                    <<"c", "a", "n", "n", "o", "t", " ",
                      "f", "u", "l", "f", "i", "l", "l">> } :
        \E i \in 0 .. (Len(lead) - Len(phrase)) :
            \A k \in 1 .. Len(phrase) : toLowerChar(lead[i + k]) = phrase[k]

\* The call threw, or the text is empty, or it is phrased as a refusal, or it
\* does not parse
failedAcquisition(o) ==
    \/ o.kind = "throw"
    \/ /\ o.kind = "response"
       /\ \/ (o.lead = << >> /\ o.body.json = "none")
          \/ refusalPhrased(o.lead)
          \/ parseThrows(o)

\* C2: whenever the provider call throws (quota or any other error), or the
\* text is empty, is phrased as a refusal or does not parse, optimizeRoute
\* resolves to the fallback set built from the same destination and battery;
\* the kind of error has no part in the set.
C2_FailureYieldsFallback ==
    (settled /\ failedAcquisition(acq.outcome)) =>
        /\ acq.value =
             [ tag |-> "array",
               items |-> fallbackRoutes(acq.destination, acq.currentBattery,
                                        acq.jitter) ]
        /\ acq.svcValue =
             [ tag |-> "array",
               items |-> svcFallbackRoutes(acq.destination, acq.currentBattery) ]

\* A refusal in mixed case in front of a well-formed route array, answered
\* with the simulated set
C2_Witness ==
    /\ settled
    /\ acq.outcome.kind = "response"
    /\ acq.outcome.lead =
         <<"I", " ", "A", "m", " ", "S", "o", "r", "r", "y", ",", " ", "n", "o">>
    /\ acq.outcome.body = [json |-> "array", items |-> LIST_NEAR]
    /\ acq.destination = PONDY
    /\ acq.value.items[1].isSimulated
    /\ acq.value.items[1].distanceKm = Km(120)

\* C6: the fallback set has exactly 3 routes, all flagged isSimulated, with
\* consumption Eco <= Balanced <= Fast, for every destination and every
\* battery percentage, those below 5 included.
C6_ThreeSimulatedOrdered ==
    (settled /\ acq.outcome.kind = "throw") =>
        LET r == acq.value.items
        IN  /\ Len(r) = 3
            /\ \A i \in DOMAIN r : r[i].isSimulated = TRUE
            /\ r[1].estimatedBatteryConsumption <= r[3].estimatedBatteryConsumption
            /\ r[3].estimatedBatteryConsumption <= r[2].estimatedBatteryConsumption

\* C7: every route of the fallback set for battery B has a consumption of at
\* most B - 5.
C7_WithinReserve ==
    (settled /\ acq.outcome.kind = "throw") =>
        \A i \in DOMAIN acq.value.items :
            acq.value.items[i].estimatedBatteryConsumption
                <= Pct(acq.currentBattery - 5)

\* The provider answered with an array of route objects and no refusal
succeeded(o) ==
    /\ o.kind = "response"
    /\ ~refusalPhrased(o.lead)
    /\ o.body.json = "array"
    /\ o.body.items # << >>

\* C12: on a successful acquisition every returned route is stamped
\* isSimulated = false and carries a mapUri, the grounding URI when there is
\* one and the search link for the destination otherwise, with or without
\* grounding metadata in the response.
C12_SuccessIsStamped ==
    (settled /\ succeeded(acq.outcome)) =>
        /\ acq.value.tag = "array"
        /\ \A i \in DOMAIN acq.value.items :
              LET r == acq.value.items[i]
                  g == acq.outcome.grounding
              IN  /\ "isSimulated" \in DOMAIN r
                  /\ r.isSimulated = FALSE
                  /\ "mapUri" \in DOMAIN r
                  /\ r.mapUri =
                        IF g.defined /\ \E k \in DOMAIN g.chunks :
                                           g.chunks[k].kind = "maps"
                          THEN [kind |-> "provider", uri |-> "maps/place"]
                          ELSE [kind |-> "search", query |-> acq.destination]

\* The text parses to something else than a non-empty array of route objects
nonconforming(o) ==
    /\ o.kind = "response"
    /\ ~refusalPhrased(o.lead)
    /\ trim(o.lead) = << >>
    /\ \/ o.body.json \in {"number", "object"}
       \/ (o.body.json = "array" /\ o.body.items = << >>)

\* C13: when the text parses to an empty array, a single object or a bare
\* number, optimizeRoute resolves to the fallback set, as for a refusal.
C13_NonconformingYieldsFallback ==
    (settled /\ nonconforming(acq.outcome)) =>
        acq.value =
            [ tag |-> "array",
              items |-> fallbackRoutes(acq.destination, acq.currentBattery,
                                       acq.jitter) ]

-----------------------------------------------------------------------------
(* Properties of processRangeFeasibility (FeasSpec) *)

\* C3: a returned route has at least one charging stop exactly when its
\* distance is above the range of 100 km; at exactly 100 km it has none.
C3_StopsIffBeyondRange ==
    \A i \in DOMAIN routes :
        (routes[i].distanceKm > Km(100)) <=> (Len(routes[i].chargingStops) >= 1)

\* A route of exactly 100 km, returned without stops
C3_Witness ==
    \E i \in DOMAIN routes :
        routes[i].distanceKm = Km(100) /\ routes[i].chargingStops = << >>

\* C4: on a route with stops, stop i (counted from 1) has id stop-i and lies at
\* i times the range, the stops are in increasing order, and there are
\* floor(distance / range) of them.
C4_StopsAtRangeMultiples ==
    \A i \in DOMAIN routes :
        LET stops == routes[i].chargingStops
        IN  Len(stops) >= 1 =>
              /\ \A k \in 1 .. Len(stops) :
                    /\ stops[k].id = <<"stop-", k>>
                    /\ stops[k].kmAt = Km(k * 100)
              /\ \A k \in 1 .. (Len(stops) - 1) : stops[k].kmAt < stops[k + 1].kmAt
              /\ Len(stops) * Km(100) <= routes[i].distanceKm
              /\ routes[i].distanceKm < (Len(stops) + 1) * Km(100)

\* A route of 250 km with exactly the stops at 100 km and 200 km
C4_Witness ==
    \E i \in DOMAIN routes :
        /\ routes[i].distanceKm = Km(250)
        /\ Len(routes[i].chargingStops) = 2
        /\ routes[i].chargingStops[1].kmAt = Km(100)
        /\ routes[i].chargingStops[2].kmAt = Km(200)

\* C5 as stated: every returned route has floor(D / R) stops, for D above R
\* and for D at or below R.
C5_StopCountIsFloor ==
    \A i \in DOMAIN routes :
        Len(routes[i].chargingStops) = routes[i].distanceKm \div Km(100)

\* C5 amended: every returned route has floor(D / R) stops, except a route of
\* exactly D = R, which has none.
C5_StopCountIsFloorOffRange ==
    \A i \in DOMAIN routes :
        Len(routes[i].chargingStops) =
            IF routes[i].distanceKm = Km(100)
              THEN 0
              ELSE routes[i].distanceKm \div Km(100)

\* A route one tenth of a kilometre short of three times the range, returned
\* with 2 stops
C5_Witness ==
    \E i \in DOMAIN routes :
        /\ routes[i].distanceKm = Km(300) - 1
        /\ Len(routes[i].chargingStops) = 2

\* C19: the returned list has the length and the order of the input, the
\* input list and its routes are as they were, and each returned route is its
\* input route in every field but chargingStops.
C19_CopiesThrough ==
    [][ /\ rawRoutes' = rawRoutes
        /\ Len(routes') = Len(rawRoutes)
        /\ \A i \in DOMAIN rawRoutes :
              /\ DOMAIN routes'[i] = DOMAIN rawRoutes[i] \cup {"chargingStops"}
              /\ \A f \in DOMAIN rawRoutes[i] \ {"chargingStops"} :
                    routes'[i][f] = rawRoutes[i][f] ]_vars

\* The three routes of LIST_FAR returned in their order, the first with stops
C19_Witness ==
    /\ rawRoutes = LIST_FAR
    /\ Len(routes) = 3
    /\ \A i \in 1 .. 3 : routes[i].id = LIST_FAR[i].id
    /\ routes[2].isOptimal
    /\ Len(routes[1].chargingStops) = 2

\* The legs of a returned route in tenths of a kilometre: origin to first
\* stop, stop to stop, last stop to destination
legs(route) ==
    LET stops == route.chargingStops
        n     == Len(stops)
    IN  [ k \in 1 .. (n + 1) |->
            (IF k = n + 1 THEN route.distanceKm ELSE stops[k].kmAt)
              - (IF k = 1 THEN 0 ELSE stops[k - 1].kmAt) ]

\* C20: no leg of a returned route is longer than the range, and none is
\* negative.
C20_LegsWithinRange ==
    \A i \in DOMAIN routes :
        \A k \in DOMAIN legs(routes[i]) :
            legs(routes[i])[k] \in 0 .. Km(100)

\* A route of 250 km cut into legs of 100, 100 and 50 km
C20_Witness ==
    \E i \in DOMAIN routes :
        /\ routes[i].distanceKm = Km(250)
        /\ legs(routes[i]) = << Km(100), Km(100), Km(50) >>

-----------------------------------------------------------------------------
(* Properties of the trip session (Spec) *)

\* A suspended fetchRoutes resumes in this step
resumes == Len(inflight') < Len(inflight)

\* C8: when something throws inside fetchRoutes, candidates, selectedId,
\* isSimulated and activeDestination keep the values they had before the call
\* resumed, and the acquiring status is cleared.
C8_ThrowLeavesSession ==
    [][ (resumes /\ lastFetch'.threw) =>
          /\ UNCHANGED << routes, selectedRouteId, isSimulated, activeDestination >>
          /\ ~isUpdating' ]_vars

\* C9: the session flag isSimulated is true exactly when some candidate in
\* routes carries isSimulated = true.
C9_FlagMatchesCandidates ==
    isSimulated <=>
        \E i \in DOMAIN routes :
            "isSimulated" \in DOMAIN routes[i] /\ routes[i].isSimulated = TRUE

\* A simulated set on which the user has picked another route than the default
C9_Witness ==
    /\ isSimulated
    /\ Len(routes) = 3
    /\ \A i \in DOMAIN routes : routes[i].isSimulated
    /\ selectedRouteId = "3"
    /\ activeDestination = PONDY

\* C10: when calls overlap, each one that resumes overwrites candidates and
\* activeDestination together with its own, so that the last to resume decides
\* both.
C10_LastResumeWins ==
    [][ (Len(inflight) >= 2 /\ resumes) =>
          /\ activeDestination' = lastFetch'.target
          /\ lastFetch'.value.tag = "array"
          /\ routes' = processRangeFeasibility(lastFetch'.value.items) ]_vars

\* Neither status is set
idle == ~isUpdating /\ ~loading

\* C11: every fetchRoutes clears the acquiring status when its provider call
\* settles, on the normal and on the exception path: whenever nothing is
\* pending after the mount the session is idle, and a session that is
\* acquiring or loading becomes idle.
C11_ReturnsToIdle ==
    /\ []((mounted /\ inflight = << >> /\ geoRequests = << >>) => idle)
    /\ ((isUpdating \/ loading) ~> idle)

\* The only call pending threw inside fetchRoutes and the session is idle
C11_Witness ==
    /\ lastFetch.threw
    /\ inflight = << >>
    /\ geoRequests = << >>
    /\ idle

\* C14: after a fetchRoutes that did not throw, selectedId is the id of the
\* first candidate marked isOptimal in the new candidates, or of the first
\* candidate when none is marked; what was selected before has no part in it.
C14_DefaultSelection ==
    [][ (resumes /\ ~lastFetch'.threw) =>
          \E i \in DOMAIN routes' :
              /\ selectedRouteId' = routes'[i].id
              /\ \A j \in 1 .. (i - 1) : ~routes'[j].isOptimal
              /\ routes'[i].isOptimal
                   \/ (i = 1 /\ \A j \in DOMAIN routes' : ~routes'[j].isOptimal) ]_vars

\* The candidates whose second route is the optimal one, with that route
\* selected by the call that brought them
C14_Witness ==
    /\ ~lastFetch.threw
    /\ lastFetch.value.tag = "array"
    /\ Len(routes) = 3
    /\ routes[1].distanceKm = Km(250)
    /\ ~routes[1].isOptimal
    /\ routes[2].isOptimal
    /\ selectedRouteId = "2"
    /\ inflight = << >>

\* C21: isUpdating is true in every state in which a fetchRoutes call is
\* waiting for the provider, overlapping calls included, so that the submit
\* button is disabled whenever an acquisition is pending.
C21_PendingMeansUpdating ==
    inflight # << >> => isUpdating

\* C22: whenever candidates is not empty, selectedId is the id of one of the
\* candidates.
C22_SelectionIsCandidate ==
    routes # << >> =>
        \E i \in DOMAIN routes : routes[i].id = selectedRouteId

\* The user's choice of the third route kept through a call that threw
C22_Witness ==
    /\ lastFetch.threw
    /\ Len(routes) = 3
    /\ selectedRouteId = "3"
    /\ ~routes[3].isOptimal

-----------------------------------------------------------------------------
(* Properties of onSelect (SelectSpec) *)

\* C15: selecting changes nothing but selectedId, and selecting an id that no
\* candidate carries changes nothing at all.
C15_AbsentIdIsNoOp ==
    [][ /\ UNCHANGED << routes, isSimulated, activeDestination >>
        /\ (selectedRouteId' \notin ids(routes)) => UNCHANGED selectedRouteId ]_vars

-----------------------------------------------------------------------------
(* Properties of estimateDistance and of the fallback set (SynthSpec) *)

synthesized == acq.phase = "synthesized"

\* The destination text lower-cased and trimmed
normalizedText(destination) == trim(toLowerCase(destination))

\* The normalized text contains the key of some entry of the table
knownPlace(destination) ==
    \E e \in DOMAIN LOCAL_DISTANCE_ESTIMATOR :
        includes(normalizedText(destination), LOCAL_DISTANCE_ESTIMATOR[e][1])

\* C16: a destination whose normalized text contains "bangalore" is estimated
\* at 330 km, whatever its length and whatever other known place it names.
C16_BangaloreIs330 ==
    (synthesized /\ includes(normalizedText(acq.destination), BANGALORE)) =>
        acq.estimate = 330

\* C17 as stated: two syntheses for the same destination and battery give
\* identical sets, for known and for unknown destinations.
C17_SynthesisRepeats ==
    synthesized => acq.value = acq.again

\* C17 amended: two syntheses for the same destination and battery give
\* identical sets when the destination names a known place; for an unknown
\* destination their base distances are within 9 km of each other.
C17_SynthesisRepeatsForKnown ==
    synthesized =>
        /\ knownPlace(acq.destination) => acq.value = acq.again
        /\ acq.value[1].distanceKm - acq.again[1].distanceKm
              \in (0 - Km(9)) .. Km(9)

\* Two syntheses for "Ooty" at the same battery that differ
C17_Witness ==
    /\ synthesized
    /\ acq.destination = OOTY
    /\ acq.currentBattery = 80
    /\ acq.value[1].distanceKm = Km(23)
    /\ acq.again[1].distanceKm = Km(32)

\* C18: for a non-empty destination the estimate is positive: the distance of
\* a table entry whose key the normalized text contains, or else between
\* 15 + 2 len and 15 + 2 len + 9 for len the length of the raw text.
C18_EstimatePositive ==
    (synthesized /\ acq.destination # << >>) =>
        /\ acq.estimate > 0
        /\ IF knownPlace(acq.destination)
             THEN \E e \in DOMAIN LOCAL_DISTANCE_ESTIMATOR :
                    /\ includes(normalizedText(acq.destination),
                                LOCAL_DISTANCE_ESTIMATOR[e][1])
                    /\ acq.estimate = LOCAL_DISTANCE_ESTIMATOR[e][2]
             ELSE acq.estimate \in (15 + 2 * Len(acq.destination))
                                      .. (15 + 2 * Len(acq.destination) + 9)

\* " Goa ", 5 characters with its blanks, estimated at 15 + 10 + 9
C18_Witness ==
    /\ synthesized
    /\ acq.destination = GOA_PADDED
    /\ acq.estimate = 34

\* C23: every key of the table is the one the scan returns at for some
\* destination text; a key that can be is so for the text that is the key
\* itself.
C23_EveryEntryEffective ==
    synthesized =>
        \A e \in DOMAIN LOCAL_DISTANCE_ESTIMATOR :
            normalizedText(acq.destination) = LOCAL_DISTANCE_ESTIMATOR[e][1]
                => acq.matched = e

=============================================================================
